---- MODULE Spec2Model ----
(***************************************************************************)
(* HyperRAM read/write example (src/main.c): main() sequences blocking     *)
(* SMIF driver calls, checks the stored status of seven of them, fills a   *)
(* transmit buffer, writes it, reads it back, compares, switches to        *)
(* memory-mapped (XIP) mode and ends in an idle loop; print_array() dumps  *)
(* a byte buffer to the console.                                           *)
(*                                                                         *)
(* The driver, the controller and the HyperRAM are the environment: a      *)
(* status-returning call may return any status, Cy_SMIF_Init and           *)
(* Cy_SMIF_Memslot_Init may leave the controller in either mode, and the   *)
(* data returned by the read-back may or may not be what was written.      *)
(* CY_ASSERT(0) is the halt trap.                                          *)
(***************************************************************************)
EXTENDS Integers, Sequences, FiniteSets, TLC

VARIABLES
    pc,            \* position of main (or of print_array while it runs)
    result,        \* cy_rslt_t result
    smif_status,   \* cy_en_smif_status_t smif_status
    tx_buf,        \* uint8_t tx_buf[SIZE_IN_BYTES]
    rx_buf,        \* uint8_t rx_buf[SIZE_IN_BYTES]
    index,         \* the fill loop's index
    loop_count,    \* uint16_t loop_count
    mem,           \* HyperRAM bytes from device address 0
    mode,          \* SMIF controller mode
    smifEnabled,   \* SMIF block enabled
    dummyCycles,   \* smifMemConfigs[0]->hbdeviceCfg->dummyCycles
    mergeTimeout,  \* merge timeout set for the slave
    cacheEnabled,  \* SMIF caches enabled
    cacheValid,    \* SMIF caches may hold lines
    console,       \* what printf has emitted, in order
    pMsg, pBuf, pSize, pIndex, pRet, pStart,  \* print_array's frame
    trace,         \* history: the steps main has executed
    accesses,      \* history: every access to tx_buf / rx_buf
    failed,        \* history: the checked call that returned a failure
    disturbed,     \* history: the read-back data is not what was written
    tx_before      \* history: tx_buf as it was when the fill loop started

vars == <<pc, result, smif_status, tx_buf, rx_buf, index, loop_count, mem,
          mode, smifEnabled, dummyCycles, mergeTimeout, cacheEnabled,
          cacheValid, console, pMsg, pBuf, pSize, pIndex, pRet, pStart, trace,
          accesses, failed, disturbed, tx_before>>

(***************************************************************************)
(* Program constants                                                       *)
(***************************************************************************)
SIZE_IN_BYTES == 64
DUMMY_CYCLE_COUNT == 14
BYTES_PER_LINE == 8
TEST_SECTOR_NO == 0
HB_SECTOR_SIZE == 262144
TEST_SECTOR_ADDRESS == HB_SECTOR_SIZE * TEST_SECTOR_NO
LOOP_VALUE == 20
UINT8_MAX == 255
BytesPerTransfer == 2

(***************************************************************************)
(* Bounds of the model                                                     *)
(***************************************************************************)
\* bytes of the device that are modelled (the device is far larger)
MemBytes == 72
\* largest size handed to print_array when it is checked on its own
MaxDumpSize == 20

BufIdx == 0 .. (SIZE_IN_BYTES - 1)
Byte == 0 .. UINT8_MAX
ToUint8(x) == x % (UINT8_MAX + 1)

(***************************************************************************)
(* Status values                                                           *)
(***************************************************************************)
CY_RSLT_SUCCESS == "CY_RSLT_SUCCESS"
CY_SMIF_SUCCESS == "CY_SMIF_SUCCESS"
CY_SMIF_BAD_PARAM == "CY_SMIF_BAD_PARAM"
CY_SMIF_NORMAL == "CY_SMIF_NORMAL"
CY_SMIF_MEMORY == "CY_SMIF_MEMORY"
\* what a cy_rslt_t call can return
RsltValues == {CY_RSLT_SUCCESS, "CY_RSLT_ERROR"}
\* what a cy_en_smif_status_t call can return
SmifStatusValues == {CY_SMIF_SUCCESS, CY_SMIF_BAD_PARAM, "CY_SMIF_EXCEED_TIMEOUT"}
SmifModes == {CY_SMIF_NORMAL, CY_SMIF_MEMORY}

(***************************************************************************)
(* Console output                                                          *)
(***************************************************************************)
Line(s) == [kind |-> "text", text |-> s, val |-> 0]
Hex(v) == [kind |-> "hex", text |-> "0x%02X ", val |-> v]
NL == [kind |-> "nl", text |-> "CRLF", val |-> 0]
Header(message, size) == [kind |-> "header", text |-> message, val |-> size]

ClearScreen == Line("ESC[2J ESC[;H")
Banner == Line("****************** HyperRAM Read and Write ******************")
Rule45 == Line("=============================================")
Rule74 == Line("==========================================================================")
Dashes25 == Line("-------------------------")
InitFailLine == Line("Cy_SMIF_Init - Fail")
MemslotFailLine == Line("Cy_SMIF_Memslot_Init - Fail")
Read1FailLine == Line("1. Reading Data before write - Fail")
Read1OkLine == Line("1. Reading Data before write - Success")
WriteFailLine == Line("2. Writing data to memory - Fail")
WriteOkLine == Line("2. Writing data to memory - Success")
Read2FailLine == Line("3. Reading back for verification - Fail")
Read2OkLine == Line("3. Reading back for verification - Success")
MismatchLine == Line("Read data does not match with written data. Read/Write operation failed.")
MatchLine == Line("SUCCESS: Read data matches with written data!")
XipIntroLine == Line("Verify execution from memory in XIP Mode")
XipRuleLine == Line("--------------------------------------------")
XipOkLine == Line("XIP Read Functionality - Success")
XipFailLine == Line("XIP Read Functionality - Fail")
CompletedLine == Line("Completed SMIF HyperRAM Test app verification")

(***************************************************************************)
(* Buffers and the device                                                  *)
(***************************************************************************)
MemIdx == 0 .. (MemBytes - 1)
\* stale stack contents a local array can hold before it is written
StackGarbage ==
    { [i \in BufIdx |-> 0], [i \in BufIdx |-> UINT8_MAX],
      [i \in BufIdx |-> ToUint8(i + 1)] }
\* contents the HyperRAM can hold at power-up or from an earlier run
MemContents ==
    { [a \in MemIdx |-> 0], [a \in MemIdx |-> UINT8_MAX],
      [a \in MemIdx |-> ToUint8(a)] }

Access(buf, op, off, len) == [buf |-> buf, op |-> op, off |-> off, len |-> len]
BufByte(buf, i) == IF i \in DOMAIN buf THEN buf[i] ELSE 0

\* memset(buf, c, n)
memset(buf, c, n) == [i \in BufIdx |-> IF i < n THEN c ELSE buf[i]]

\* memcpy(dst, src, n) into a SIZE_IN_BYTES buffer
memcpy(dst, src, n) == [i \in BufIdx |-> IF i < n THEN BufByte(src, i) ELSE dst[i]]

FirstDiff(a, b, n) ==
    LET D == {i \in 0 .. (n - 1) : BufByte(a, i) # BufByte(b, i)}
    IN  IF D = {} THEN -1 ELSE CHOOSE i \in D : \A j \in D : i <= j
\* memcmp(a, b, n): 0 when the first n bytes agree, else the difference of
\* the first bytes that differ
memcmp(a, b, n) ==
    LET d == FirstDiff(a, b, n)
    IN  IF d = -1 THEN 0 ELSE BufByte(a, d) - BufByte(b, d)

\* the bytes one burst of `count` 16-bit transfers moves
BurstBytes(count) == count * BytesPerTransfer
\* the device bytes a read burst at `addr` returns
DeviceRead(m, addr, count) ==
    [i \in 0 .. (BurstBytes(count) - 1) |-> BufByte(m, addr + i)]
\* the device after a write burst at `addr` of the bytes at src
DeviceWrite(m, addr, count, src) ==
    [a \in MemIdx |-> IF a >= addr /\ a < addr + BurstBytes(count)
                      THEN BufByte(src, a - addr) ELSE m[a]]

\* what can happen to the data between the write and the read-back
Disturbances == {"none", "first", "middle", "last"}
DisturbedIdx(c) ==
    CASE c = "first" -> 0
      [] c = "middle" -> SIZE_IN_BYTES \div 2
      [] OTHER -> SIZE_IN_BYTES - 1
Disturb(data, c) ==
    IF c = "none" THEN data
    ELSE [i \in DOMAIN data |->
            IF i = DisturbedIdx(c) THEN UINT8_MAX - data[i] ELSE data[i]]

(***************************************************************************)
(* Variable groups                                                         *)
(***************************************************************************)
locals == <<result, smif_status, index, loop_count>>
bufs == <<tx_buf, rx_buf>>
hw == <<mode, smifEnabled, dummyCycles, mergeTimeout, cacheEnabled, cacheValid>>
frame == <<pMsg, pBuf, pSize, pIndex, pRet, pStart>>
history == <<accesses, failed, disturbed, tx_before>>

Did(step) == trace' = Append(trace, step)
Printf(lines) == console' = console \o lines
NoFrame == [name |-> "none", bytes |-> <<>>]

(***************************************************************************)
(* main: locals as declared (lines 108-117), the board after reset         *)
(***************************************************************************)
Init ==
    /\ pc = "cybsp_init"
    /\ result = "unset"
    /\ smif_status = CY_SMIF_BAD_PARAM
    /\ tx_buf \in StackGarbage
    /\ rx_buf \in StackGarbage
    /\ index = 0
    /\ loop_count = 0
    /\ mem \in MemContents
    /\ mode = CY_SMIF_NORMAL
    /\ smifEnabled \in BOOLEAN
    /\ dummyCycles = 0
    /\ mergeTimeout = FALSE
    /\ cacheEnabled = FALSE
    /\ cacheValid = FALSE
    /\ console = <<>>
    /\ pMsg = ""
    /\ pBuf = NoFrame
    /\ pSize = 0
    /\ pIndex = 0
    /\ pRet = "none"
    /\ pStart = 0
    /\ trace = <<>>
    /\ accesses = {}
    /\ failed = "none"
    /\ disturbed = FALSE
    /\ tx_before = tx_buf

\* if (result != CY_RSLT_SUCCESS)
RsltFailed(r) == r # CY_RSLT_SUCCESS
\* the test of the status left out: no status counts as a failure
SmifFailedNever(st) == FALSE
\* if (smif_status != CY_SMIF_SUCCESS)
SmifFailed(st) == st # CY_SMIF_SUCCESS
\* CY_ASSERT(0): where the program halts
AssertTrap == "trap"

\* result = cybsp_init(); on failure CY_ASSERT(0), nothing printed
cybsp_init ==
    /\ pc = "cybsp_init"
    /\ \E r \in RsltValues :
        /\ result' = r
        /\ failed' = IF r # CY_RSLT_SUCCESS THEN "cybsp_init" ELSE failed
        /\ pc' = IF RsltFailed(r) THEN AssertTrap ELSE "gpio_fastinit"
    /\ Did("cybsp_init")
    /\ UNCHANGED <<smif_status, index, loop_count, bufs, mem, hw, console,
                   frame, accesses, disturbed, tx_before>>

Cy_GPIO_Pin_FastInit ==
    /\ pc = "gpio_fastinit"
    /\ pc' = "retarget_io_init"
    /\ Did("gpio_fastinit")
    /\ UNCHANGED <<locals, bufs, mem, hw, console, frame, history>>

\* result = cy_retarget_io_init_fc(...); on failure CY_ASSERT(0), nothing printed
cy_retarget_io_init_fc ==
    /\ pc = "retarget_io_init"
    /\ \E r \in RsltValues :
        /\ result' = r
        /\ failed' = IF r # CY_RSLT_SUCCESS THEN "retarget_io_init" ELSE failed
        /\ pc' = IF RsltFailed(r) THEN AssertTrap ELSE "banner"
    /\ Did("retarget_io_init")
    /\ UNCHANGED <<smif_status, index, loop_count, bufs, mem, hw, console,
                   frame, accesses, disturbed, tx_before>>

PrintBanner ==
    /\ pc = "banner"
    /\ Printf(<<ClearScreen, Banner>>)
    /\ pc' = "enable_irq"
    /\ Did("banner")
    /\ UNCHANGED <<locals, bufs, mem, hw, frame, history>>

enable_irq ==
    /\ pc = "enable_irq"
    /\ pc' = "smif_disable"
    /\ Did("enable_irq")
    /\ UNCHANGED <<locals, bufs, mem, hw, console, frame, history>>

Cy_SMIF_Disable ==
    /\ pc = "smif_disable"
    /\ smifEnabled' = FALSE
    /\ pc' = "smif_init"
    /\ Did("smif_disable")
    /\ UNCHANGED <<locals, bufs, mem, mode, dummyCycles, mergeTimeout,
                   cacheEnabled, cacheValid, console, frame, history>>

\* smif_status = Cy_SMIF_Init(...): the configuration decides the mode, the
\* caches and the merge timeout the controller is left with
Cy_SMIF_Init ==
    /\ pc = "smif_init"
    /\ \E st \in SmifStatusValues, m \in SmifModes, c \in BOOLEAN :
        /\ smif_status' = st
        /\ mode' = m
        /\ cacheEnabled' = c
        /\ mergeTimeout' = c
        /\ failed' = IF st # CY_SMIF_SUCCESS THEN "smif_init" ELSE failed
        /\ IF SmifFailed(st)
           THEN Printf(<<InitFailLine>>) /\ pc' = AssertTrap
           ELSE UNCHANGED console /\ pc' = "setmode_normal_1"
    /\ Did("smif_init")
    /\ UNCHANGED <<result, index, loop_count, bufs, mem, smifEnabled,
                   dummyCycles, cacheValid, frame, accesses, disturbed,
                   tx_before>>

\* the call left out: the mode stays as the driver left it
Cy_SMIF_SetModeSkipped(at, m, next) ==
    /\ pc = at
    /\ pc' = next
    /\ Did(at)
    /\ UNCHANGED <<locals, bufs, mem, hw, console, frame, history>>

\* Cy_SMIF_SetMode(SMIF_BASE, m)
Cy_SMIF_SetMode(at, m, next) ==
    /\ pc = at
    /\ mode' = m
    /\ pc' = next
    /\ Did(at)
    /\ UNCHANGED <<locals, bufs, mem, smifEnabled, dummyCycles, mergeTimeout,
                   cacheEnabled, cacheValid, console, frame, history>>

Cy_SMIF_SetDataSelect ==
    /\ pc = "set_data_select"
    /\ pc' = "smif_enable"
    /\ Did("set_data_select")
    /\ UNCHANGED <<locals, bufs, mem, hw, console, frame, history>>

Cy_SMIF_Enable ==
    /\ pc = "smif_enable"
    /\ smifEnabled' = TRUE
    /\ pc' = "dummy_cycles"
    /\ Did("smif_enable")
    /\ UNCHANGED <<locals, bufs, mem, mode, dummyCycles, mergeTimeout,
                   cacheEnabled, cacheValid, console, frame, history>>

\* smifMemConfigs[0]->hbdeviceCfg->dummyCycles = DUMMY_CYCLE_COUNT
SetDummyCycles ==
    /\ pc = "dummy_cycles"
    /\ dummyCycles' = DUMMY_CYCLE_COUNT
    /\ pc' = "memslot_init"
    /\ Did("dummy_cycles")
    /\ UNCHANGED <<locals, bufs, mem, mode, smifEnabled, mergeTimeout,
                   cacheEnabled, cacheValid, console, frame, history>>

\* smif_status = Cy_SMIF_Memslot_Init(...): may leave either mode set
Cy_SMIF_Memslot_Init ==
    /\ pc = "memslot_init"
    /\ \E st \in SmifStatusValues, m \in SmifModes :
        /\ smif_status' = st
        /\ mode' = m
        /\ failed' = IF st # CY_SMIF_SUCCESS THEN "memslot_init" ELSE failed
        /\ IF SmifFailed(st)
           THEN Printf(<<MemslotFailLine>>) /\ pc' = AssertTrap
           ELSE UNCHANGED console /\ pc' = "setmode_normal_2"
    /\ Did("memslot_init")
    /\ UNCHANGED <<result, index, loop_count, bufs, mem, smifEnabled,
                   dummyCycles, mergeTimeout, cacheEnabled, cacheValid, frame,
                   accesses, disturbed, tx_before>>

\* memset(rx_buf, 0, SIZE_IN_BYTES)
MemsetRx(at, next) ==
    /\ pc = at
    /\ rx_buf' = memset(rx_buf, 0, SIZE_IN_BYTES)
    /\ accesses' = accesses \cup {Access("rx_buf", "w", 0, SIZE_IN_BYTES)}
    /\ pc' = next
    /\ Did(at)
    /\ UNCHANGED <<locals, tx_buf, mem, hw, console, frame, failed, disturbed,
                   tx_before>>

\* the address and the number of 16-bit transfers of each burst
ReadBeforeWriteAddress == TEST_SECTOR_ADDRESS
\* one transfer more than the buffer holds
ReadBeforeWriteCountLong == 32 + 1
ReadBeforeWriteCount == 32
WriteAddress == TEST_SECTOR_ADDRESS
WriteCount == 32
ReadBackAddress == TEST_SECTOR_ADDRESS
\* one transfer short of what was written
ReadBackCountShort == 32 - 1
ReadBackCount == 32

\* smif_status = Cy_SMIF_HyperBus_Read(..., addr, count, (uint16_t*)rx_buf, ...)
\* with its check: the failure line and the trap, or the success line
Cy_SMIF_HyperBus_Read(at, addr, count, env, failLine, okLine, next) ==
    /\ pc = at
    /\ \E st \in SmifStatusValues, c \in env :
        /\ st # CY_SMIF_SUCCESS => c = "none"
        /\ smif_status' = st
        /\ failed' = IF st # CY_SMIF_SUCCESS THEN at ELSE failed
        /\ disturbed' = (disturbed \/ c # "none")
        /\ rx_buf' = IF st = CY_SMIF_SUCCESS
                     THEN memcpy(rx_buf, Disturb(DeviceRead(mem, addr, count), c),
                                 BurstBytes(count))
                     ELSE rx_buf
        /\ IF SmifFailed(st)
           THEN Printf(<<failLine>>) /\ pc' = AssertTrap
           ELSE Printf(<<okLine>>) /\ pc' = next
    /\ accesses' = accesses \cup {Access("rx_buf", "burst_in", 0, BurstBytes(count))}
    /\ Did(at)
    /\ UNCHANGED <<result, index, loop_count, tx_buf, mem, hw, frame, tx_before>>

\* smif_status = Cy_SMIF_HyperBus_Write(..., addr, count, (uint16_t*)&tx_buf[0], ...)
Cy_SMIF_HyperBus_Write ==
    /\ pc = "write"
    /\ \E st \in SmifStatusValues :
        /\ smif_status' = st
        /\ failed' = IF st # CY_SMIF_SUCCESS THEN "write" ELSE failed
        /\ mem' = IF st = CY_SMIF_SUCCESS
                  THEN DeviceWrite(mem, WriteAddress, WriteCount, tx_buf)
                  ELSE mem
        /\ IF SmifFailed(st)
           THEN Printf(<<WriteFailLine>>) /\ pc' = AssertTrap
           ELSE Printf(<<WriteOkLine>>) /\ pc' = "print_tx"
    /\ accesses' = accesses \cup {Access("tx_buf", "burst_out", 0, BurstBytes(WriteCount))}
    /\ Did("write")
    /\ UNCHANGED <<result, index, loop_count, bufs, hw, frame, disturbed,
                   tx_before>>

(***************************************************************************)
(* print_array(message, buf, size)                                         *)
(***************************************************************************)
\* the call: the arguments and the return address
CallPrintArray(at, message, name, buf, size, ret) ==
    /\ pc = at
    /\ pMsg' = message
    /\ pBuf' = [name |-> name, bytes |-> buf]
    /\ pSize' = size
    /\ pRet' = ret
    /\ pc' = "print_array"
    /\ Did(at)
    /\ UNCHANGED <<locals, bufs, mem, hw, console, pIndex, pStart, history>>

\* the two header lines, and the loop's index = 0
print_array_header ==
    /\ pc = "print_array"
    /\ Printf(<<Header(pMsg, pSize), Dashes25>>)
    /\ pStart' = Len(console) + 2
    /\ pIndex' = 0
    /\ pc' = "pa_loop"
    /\ UNCHANGED <<locals, bufs, mem, hw, pMsg, pBuf, pSize, pRet, trace, history>>

\* the break tested on index instead of index + 1
LineBreakDueEarly(i) == i % BYTES_PER_LINE = 0
\* if (0u == ((index + 1) % BYTES_PER_LINE))
LineBreakDue(i) == (i + 1) % BYTES_PER_LINE = 0

\* one iteration: the byte, then the line break when one is due
print_array_byte ==
    /\ pc = "pa_loop"
    /\ pIndex < pSize
    /\ Printf(<<Hex(BufByte(pBuf.bytes, pIndex))>>
                \o (IF LineBreakDue(pIndex) THEN <<NL>> ELSE <<>>))
    /\ accesses' = accesses \cup {Access(pBuf.name, "r", pIndex, 1)}
    /\ pIndex' = pIndex + 1
    /\ UNCHANGED <<pc, locals, bufs, mem, hw, pMsg, pBuf, pSize, pRet, pStart,
                   trace, failed, disturbed, tx_before>>

\* index < size fails: return to the caller
print_array_return ==
    /\ pc = "pa_loop"
    /\ ~(pIndex < pSize)
    /\ pc' = pRet
    /\ UNCHANGED <<locals, bufs, mem, hw, console, frame, trace, history>>

\* printf("\r\n=============================================\r\n")
PrintRule(at, next) ==
    /\ pc = at
    /\ Printf(<<Rule45>>)
    /\ pc' = next
    /\ Did(at)
    /\ UNCHANGED <<locals, bufs, mem, hw, frame, history>>

(***************************************************************************)
(* Prepare the TX buffer                                                   *)
(***************************************************************************)
\* the loop started at index 0
FillStartZero == 1 - 1
\* uint32_t index = 1
FillStart == 1
\* index < SIZE_IN_BYTES
FillLimit == SIZE_IN_BYTES

fill_init ==
    /\ pc = "fill_init"
    /\ index' = FillStart
    /\ tx_before' = tx_buf
    /\ pc' = "fill_loop"
    /\ Did("fill")
    /\ UNCHANGED <<result, smif_status, loop_count, bufs, mem, hw, console,
                   frame, accesses, failed, disturbed>>

\* tx_buf[index] = (uint8_t)index; index++
fill_body ==
    /\ pc = "fill_loop"
    /\ index < FillLimit
    /\ tx_buf' = [i \in BufIdx |-> IF i = index THEN ToUint8(index) ELSE tx_buf[i]]
    /\ accesses' = accesses \cup {Access("tx_buf", "w", index, 1)}
    /\ index' = index + 1
    /\ UNCHANGED <<pc, result, smif_status, loop_count, rx_buf, mem, hw,
                   console, frame, trace, failed, disturbed, tx_before>>

fill_exit ==
    /\ pc = "fill_loop"
    /\ ~(index < FillLimit)
    /\ pc' = "write"
    /\ UNCHANGED <<locals, bufs, mem, hw, console, frame, trace, history>>

(***************************************************************************)
(* Verification                                                            *)
(***************************************************************************)
\* the last byte left out of the comparison
CompareLengthShort == SIZE_IN_BYTES - 1
\* the length handed to memcmp
CompareLength == SIZE_IN_BYTES
\* a mismatch treated as a failed call
AfterCompareHalts(differs) == IF differs THEN AssertTrap ELSE "setmode_memory_1"
\* where main goes on after the report
AfterCompare(differs) == "setmode_memory_1"

\* if (0u != memcmp(tx_buf, rx_buf, SIZE_IN_BYTES)) ... else ...
Compare ==
    /\ pc = "compare"
    /\ LET differs == (0 # memcmp(tx_buf, rx_buf, CompareLength))
       IN  /\ Printf(IF differs THEN <<Rule74, MismatchLine, Rule74>>
                                ELSE <<Rule45, MatchLine, Rule45>>)
           /\ pc' = AfterCompare(differs)
    /\ accesses' = accesses \cup {Access("tx_buf", "r", 0, CompareLength),
                                  Access("rx_buf", "r", 0, CompareLength)}
    /\ Did("compare")
    /\ UNCHANGED <<locals, bufs, mem, hw, frame, failed, disturbed, tx_before>>

(***************************************************************************)
(* XIP read and execution                                                  *)
(***************************************************************************)
\* memcpy(rx_buf, (void*)(pHyperFlashBaseAddr + TEST_SECTOR_ADDRESS), SIZE_IN_BYTES):
\* loads through the mapped window return the device's bytes and fill the
\* cache when it is enabled
XipMemcpy ==
    /\ pc = "xip_memcpy"
    /\ rx_buf' = memcpy(rx_buf, [i \in BufIdx |-> BufByte(mem, TEST_SECTOR_ADDRESS + i)],
                        SIZE_IN_BYTES)
    /\ cacheValid' = cacheEnabled
    /\ accesses' = accesses \cup {Access("rx_buf", "w", 0, SIZE_IN_BYTES)}
    /\ pc' = "print_rx_3"
    /\ Did("xip_memcpy")
    /\ UNCHANGED <<locals, tx_buf, mem, mode, smifEnabled, dummyCycles,
                   mergeTimeout, cacheEnabled, console, frame, failed,
                   disturbed, tx_before>>

Cy_SMIF_DeviceTransfer_ClearMergeTimeout ==
    /\ pc = "clear_merge_timeout"
    /\ mergeTimeout' = FALSE
    /\ pc' = "cache_invalidate"
    /\ Did("clear_merge_timeout")
    /\ UNCHANGED <<locals, bufs, mem, mode, smifEnabled, dummyCycles,
                   cacheEnabled, cacheValid, console, frame, history>>

Cy_SMIF_CacheInvalidate ==
    /\ pc = "cache_invalidate"
    /\ cacheValid' = FALSE
    /\ pc' = "cache_disable"
    /\ Did("cache_invalidate")
    /\ UNCHANGED <<locals, bufs, mem, mode, smifEnabled, dummyCycles,
                   mergeTimeout, cacheEnabled, console, frame, history>>

Cy_SMIF_CacheDisable ==
    /\ pc = "cache_disable"
    /\ cacheEnabled' = FALSE
    /\ pc' = "xip_banner"
    /\ Did("cache_disable")
    /\ UNCHANGED <<locals, bufs, mem, mode, smifEnabled, dummyCycles,
                   mergeTimeout, cacheValid, console, frame, history>>

PrintXipBanner ==
    /\ pc = "xip_banner"
    /\ Printf(<<XipIntroLine, XipRuleLine>>)
    /\ pc' = "setmode_memory_2"
    /\ Did("xip_banner")
    /\ UNCHANGED <<locals, bufs, mem, hw, frame, history>>

\* the increment lost
executed_api_same(data) == ToUint8(data)
\* uint8_t executed_api(uint8_t data) { data++; return(data); }
executed_api(data) == ToUint8(data + 1)

\* loop_count = executed_api(LOOP_VALUE)
CallExecutedApi ==
    /\ pc = "executed_api"
    /\ loop_count' = executed_api(LOOP_VALUE)
    /\ pc' = "xip_verdict"
    /\ Did("executed_api")
    /\ UNCHANGED <<result, smif_status, index, bufs, mem, hw, console, frame,
                   history>>

\* if (loop_count == LOOP_VALUE + 1) ... else ...
XipVerdict ==
    /\ pc = "xip_verdict"
    /\ Printf(<<IF loop_count = LOOP_VALUE + 1 THEN XipOkLine ELSE XipFailLine>>)
    /\ pc' = "completed"
    /\ Did("xip_verdict")
    /\ UNCHANGED <<locals, bufs, mem, hw, frame, history>>

PrintCompleted ==
    /\ pc = "completed"
    /\ Printf(<<CompletedLine>>)
    /\ pc' = "idle"
    /\ Did("completed")
    /\ UNCHANGED <<locals, bufs, mem, hw, frame, history>>

\* the loop left out: main returns
IdleLoopReturns ==
    /\ pc = "idle"
    /\ pc' = "returned"
    /\ UNCHANGED <<locals, bufs, mem, hw, console, frame, trace, history>>

\* for (;;) { }
IdleLoop ==
    /\ pc = "idle"
    /\ UNCHANGED vars

\* CY_ASSERT(0) has halted the program
Halted ==
    /\ pc = AssertTrap
    /\ UNCHANGED vars

(***************************************************************************)
(* main                                                                    *)
(***************************************************************************)
Next ==
    \/ cybsp_init
    \/ Cy_GPIO_Pin_FastInit
    \/ cy_retarget_io_init_fc
    \/ PrintBanner
    \/ enable_irq
    \/ Cy_SMIF_Disable
    \/ Cy_SMIF_Init
    \/ Cy_SMIF_SetMode("setmode_normal_1", CY_SMIF_NORMAL, "set_data_select")
    \/ Cy_SMIF_SetDataSelect
    \/ Cy_SMIF_Enable
    \/ SetDummyCycles
    \/ Cy_SMIF_Memslot_Init
    \/ Cy_SMIF_SetMode("setmode_normal_2", CY_SMIF_NORMAL, "memset_rx_1")
    \/ MemsetRx("memset_rx_1", "read_before_write")
    \/ Cy_SMIF_HyperBus_Read("read_before_write", ReadBeforeWriteAddress,
                             ReadBeforeWriteCount, {"none"}, Read1FailLine,
                             Read1OkLine, "print_rx_1")
    \/ CallPrintArray("print_rx_1", "Received Data before write", "rx_buf",
                      rx_buf, SIZE_IN_BYTES, "rule_1")
    \/ PrintRule("rule_1", "fill_init")
    \/ fill_init
    \/ fill_body
    \/ fill_exit
    \/ Cy_SMIF_HyperBus_Write
    \/ CallPrintArray("print_tx", "Written Data", "tx_buf", tx_buf,
                      SIZE_IN_BYTES, "rule_2")
    \/ PrintRule("rule_2", "memset_rx_2")
    \/ MemsetRx("memset_rx_2", "read_back")
    \/ Cy_SMIF_HyperBus_Read("read_back", ReadBackAddress, ReadBackCount,
                             Disturbances, Read2FailLine, Read2OkLine,
                             "print_rx_2")
    \/ CallPrintArray("print_rx_2", "Received Data", "rx_buf", rx_buf,
                      SIZE_IN_BYTES, "compare")
    \/ Compare
    \/ Cy_SMIF_SetMode("setmode_memory_1", CY_SMIF_MEMORY, "memset_rx_3")
    \/ MemsetRx("memset_rx_3", "xip_memcpy")
    \/ XipMemcpy
    \/ CallPrintArray("print_rx_3", "4. XIP READ ", "rx_buf", rx_buf,
                      SIZE_IN_BYTES, "clear_merge_timeout")
    \/ Cy_SMIF_DeviceTransfer_ClearMergeTimeout
    \/ Cy_SMIF_CacheInvalidate
    \/ Cy_SMIF_CacheDisable
    \/ PrintXipBanner
    \/ Cy_SMIF_SetMode("setmode_memory_2", CY_SMIF_MEMORY, "executed_api")
    \/ CallExecutedApi
    \/ XipVerdict
    \/ PrintCompleted
    \/ IdleLoop
    \/ Halted
    \/ print_array_header
    \/ print_array_byte
    \/ print_array_return

Spec == Init /\ [][Next]_vars

\* every call blocks and returns, and nothing else is scheduled: main always
\* takes its next step
FairSpec == Spec /\ WF_vars(Next)

(***************************************************************************)
(* print_array on its own: any size up to MaxDumpSize, any contents        *)
(***************************************************************************)
DumpContents(n) ==
    { [i \in 0 .. (n - 1) |-> ToUint8(i)],
      [i \in 0 .. (n - 1) |-> ToUint8(UINT8_MAX - i)] }

InitPrint ==
    /\ pc = "print_array"
    /\ pSize \in 0 .. MaxDumpSize
    /\ pBuf \in {[name |-> "buf", bytes |-> b] : b \in DumpContents(pSize)}
    /\ pMsg = "dump"
    /\ pRet = "returned"
    /\ pIndex = 0
    /\ pStart = 0
    /\ result = "unset"
    /\ smif_status = CY_SMIF_BAD_PARAM
    /\ tx_buf = [i \in BufIdx |-> 0]
    /\ rx_buf = [i \in BufIdx |-> 0]
    /\ index = 0
    /\ loop_count = 0
    /\ mem = [a \in MemIdx |-> 0]
    /\ mode = CY_SMIF_NORMAL
    /\ smifEnabled = FALSE
    /\ dummyCycles = 0
    /\ mergeTimeout = FALSE
    /\ cacheEnabled = FALSE
    /\ cacheValid = FALSE
    /\ console = <<>>
    /\ trace = <<>>
    /\ accesses = {}
    /\ failed = "none"
    /\ disturbed = FALSE
    /\ tx_before = tx_buf

NextPrint ==
    \/ print_array_header
    \/ print_array_byte
    \/ print_array_return

PrintSpec == InitPrint /\ [][NextPrint]_vars

(***************************************************************************)
(* Properties                                                              *)
(***************************************************************************)
Range(q) == {q[k] : k \in DOMAIN q}
Count(q, x) == Cardinality({k \in DOMAIN q : q[k] = x})
IsPrefix(p, q) == Len(p) <= Len(q) /\ \A k \in DOMAIN p : p[k] = q[k]
Printed(line) == line \in Range(console)
Done(step) == step \in Range(trace)

\* the calls whose status main stores and tests
BoardCalls == {"cybsp_init", "retarget_io_init"}
SmifCalls == {"smif_init", "memslot_init", "read_before_write", "write", "read_back"}
FailLineOf(call) ==
    CASE call = "smif_init" -> InitFailLine
      [] call = "memslot_init" -> MemslotFailLine
      [] call = "read_before_write" -> Read1FailLine
      [] call = "write" -> WriteFailLine
      [] OTHER -> Read2FailLine
FailLines == {FailLineOf(c) : c \in SmifCalls}

\* C1 as stated: whenever a checked call has returned a failure status, the
\* program is at the assert trap, the failed call is the last step taken, and
\* the last thing printed is a diagnostic line.
C1_DiagnosticOnEveryFailure ==
    failed # "none" =>
        /\ pc = AssertTrap
        /\ trace[Len(trace)] = failed
        /\ console # <<>>
        /\ console[Len(console)] \in FailLines

\* C1 amended: whenever one of the seven calls whose status main stores has
\* returned a failure status, the program is at the assert trap and the
\* failed call is the last step taken; for the five SMIF calls the last thing
\* printed is that call's diagnostic line, and for cybsp_init and
\* cy_retarget_io_init_fc nothing has been printed at all.
C1_HaltOnEveryFailure ==
    failed # "none" =>
        /\ pc = AssertTrap
        /\ trace[Len(trace)] = failed
        /\ failed \in BoardCalls \cup SmifCalls
        /\ failed \in BoardCalls => console = <<>>
        /\ failed \in SmifCalls =>
              /\ console # <<>>
              /\ console[Len(console)] = FailLineOf(failed)
              /\ Count(console, FailLineOf(failed)) = 1

C1_Witness == failed = "read_back" /\ pc = AssertTrap /\ smif_status # CY_SMIF_SUCCESS

\* the steps main takes after the comparison, on a match and on a mismatch
PostCompareSteps ==
    <<"setmode_memory_1", "memset_rx_3", "xip_memcpy", "print_rx_3",
      "clear_merge_timeout", "cache_invalidate", "cache_disable", "xip_banner",
      "setmode_memory_2", "executed_api", "xip_verdict", "completed">>
AfterCompareTrace ==
    IF Done("compare")
    THEN LET k == CHOOSE j \in DOMAIN trace : trace[j] = "compare"
         IN  SubSeq(trace, k + 1, Len(trace))
    ELSE <<>>

\* C2: once the mismatch report is printed the program never halts at the
\* trap: it goes on through the XIP read, the merge-timeout and cache steps
\* and the executed_api call, taking the same steps as on a match, and it
\* reaches the idle loop.
C2_MismatchDoesNotHalt ==
    /\ [](Printed(MismatchLine) =>
            /\ pc # AssertTrap
            /\ failed = "none"
            /\ Count(trace, "compare") = 1
            /\ IsPrefix(AfterCompareTrace, PostCompareSteps))
    /\ [](pc = "idle" => AfterCompareTrace = PostCompareSteps)
    /\ (Printed(MismatchLine) ~> pc = "idle")

C2_Witness == pc = "idle" /\ Printed(MismatchLine) /\ ~Printed(MatchLine)

\* C3: round trip: when the write and the read-back have both succeeded and
\* the data was not disturbed in between, the comparison reports a match,
\* whatever the memory held before and whatever tx_buf[0] holds.
C3_RoundTrip ==
    (Done("compare") /\ ~disturbed) =>
        /\ Printed(MatchLine)
        /\ ~Printed(MismatchLine)
        /\ \A i \in BufIdx : mem[TEST_SECTOR_ADDRESS + i] = tx_buf[i]

C3_Witness ==
    /\ pc = "setmode_memory_1"
    /\ ~disturbed
    /\ Printed(MatchLine)
    /\ tx_buf[0] = UINT8_MAX
    /\ rx_buf = tx_buf

FillDone == Done("fill") /\ pc # "fill_loop"

\* C4: after the fill loop tx_buf[i] = i mod 256 for every i in 1..N-1,
\* tx_buf[0] is what it was before the loop, and the loop wrote no index
\* outside 1..N-1; while the loop runs, the bytes below index are filled.
C4_FillPattern ==
    /\ FillDone =>
          /\ \A i \in 1 .. (SIZE_IN_BYTES - 1) : tx_buf[i] = i % 256
          /\ tx_buf[0] = tx_before[0]
          /\ index = SIZE_IN_BYTES
    /\ pc = "fill_loop" =>
          /\ \A i \in 1 .. (index - 1) : tx_buf[i] = i % 256
          /\ \A i \in BufIdx : (i = 0 \/ i >= index) => tx_buf[i] = tx_before[i]
    /\ \A a \in accesses :
          (a.buf = "tx_buf" /\ a.op = "w") =>
              a.len = 1 /\ a.off >= 1 /\ a.off < SIZE_IN_BYTES

C4_Witness ==
    /\ pc = "write"
    /\ tx_before[0] = UINT8_MAX
    /\ tx_buf[0] = UINT8_MAX
    /\ tx_buf[SIZE_IN_BYTES - 1] = SIZE_IN_BYTES - 1
    /\ tx_before[SIZE_IN_BYTES - 1] # SIZE_IN_BYTES - 1

\* what print_array's loop has printed so far
DumpOut == SubSeq(console, pStart + 1, Len(console))
IsHex(t) == t.kind = "hex"
DumpBytes == SelectSeq(DumpOut, IsHex)
BytesInOrder ==
    /\ Len(DumpBytes) = pSize
    /\ \A k \in 1 .. pSize : DumpBytes[k].val = pBuf.bytes[k - 1]
CeilDiv(n, d) == (n + d - 1) \div d

\* C5 as stated: when print_array returns it has printed each of the N bytes
\* once, in index order, and its loop has emitted exactly ceil(N/8) line
\* breaks.
C5_CeilLineBreaks ==
    pc = "returned" =>
        /\ BytesInOrder
        /\ Count(DumpOut, NL) = CeilDiv(pSize, BYTES_PER_LINE)

\* C5 amended: when print_array returns it has printed each of the N bytes
\* once, in index order, and its loop has emitted exactly floor(N/8) line
\* breaks, each one directly after an 8th byte; a final partial line gets no
\* line break.
C5_FloorLineBreaks ==
    pc = "returned" =>
        /\ BytesInOrder
        /\ Len(DumpOut) = pSize + (pSize \div BYTES_PER_LINE)
        /\ Count(DumpOut, NL) = pSize \div BYTES_PER_LINE
        /\ \A k \in DOMAIN DumpOut :
              DumpOut[k] = NL <=> k % (BYTES_PER_LINE + 1) = 0
        /\ console[1] = Header(pMsg, pSize)

C5_Witness ==
    /\ pc = "returned"
    /\ pSize = BYTES_PER_LINE + 3
    /\ Count(DumpOut, NL) = 1
    /\ DumpOut[Len(DumpOut)] # NL

BuffersDiffer == \E i \in BufIdx : tx_buf[i] # rx_buf[i]

\* C6: right after the verification step exactly one of the two reports has
\* been printed: the mismatch report iff tx_buf and rx_buf differ at some
\* index in 0..SIZE_IN_BYTES-1, the success report iff all bytes are equal;
\* neither is printed before the step, and neither is ever printed twice.
C6_ReportMatchesBuffers ==
    /\ Count(console, MatchLine) + Count(console, MismatchLine)
          = (IF Done("compare") THEN 1 ELSE 0)
    /\ pc = "setmode_memory_1" =>
          /\ Printed(MismatchLine) <=> BuffersDiffer
          /\ Printed(MatchLine) <=> ~BuffersDiffer

C6_Witness ==
    /\ pc = "setmode_memory_1"
    /\ Printed(MismatchLine)
    /\ \A i \in BufIdx : (tx_buf[i] # rx_buf[i]) <=> (i = SIZE_IN_BYTES - 1)

\* the order the steps are claimed to occur in (the idle loop comes last)
ClaimedOrder ==
    <<"cybsp_init", "retarget_io_init", "smif_disable", "smif_init",
      "setmode_normal_1", "set_data_select", "smif_enable", "dummy_cycles",
      "memslot_init", "read_before_write", "fill", "write", "read_back",
      "compare", "setmode_memory_1", "xip_memcpy", "clear_merge_timeout",
      "cache_invalidate", "cache_disable", "executed_api">>
IsClaimed(step) == step \in Range(ClaimedOrder)

\* C7: the listed steps occur in the one claimed order, each at most once and
\* none before an earlier one; the idle loop is reached only after all of
\* them; the controller is in normal mode at every HyperBus read and write
\* call and in memory-mapped mode at the access through the XIP window.
C7_FixedOrder ==
    /\ IsPrefix(SelectSeq(trace, IsClaimed), ClaimedOrder)
    /\ pc = "idle" => SelectSeq(trace, IsClaimed) = ClaimedOrder
    /\ pc \in {"read_before_write", "write", "read_back"} =>
          mode = CY_SMIF_NORMAL /\ smifEnabled
    /\ pc \in {"memset_rx_3", "xip_memcpy", "executed_api"} =>
          mode = CY_SMIF_MEMORY

C7_Witness ==
    /\ pc = "idle"
    /\ SelectSeq(trace, IsClaimed) = ClaimedOrder
    /\ mode = CY_SMIF_MEMORY

Bursts == {"burst_in", "burst_out"}

\* C8: every access to tx_buf or rx_buf lies inside the buffer, and each
\* HyperBus burst touches exactly bytes 0..SIZE_IN_BYTES-1.
C8_AccessesInBounds ==
    \A a \in accesses :
        /\ a.buf \in {"tx_buf", "rx_buf"}
        /\ a.off >= 0
        /\ a.len >= 1
        /\ a.off + a.len <= SIZE_IN_BYTES
        /\ a.op \in Bursts => (a.off = 0 /\ a.len = SIZE_IN_BYTES)

C8_Witness ==
    /\ pc = "idle"
    /\ Access("rx_buf", "burst_in", 0, SIZE_IN_BYTES) \in accesses
    /\ Access("tx_buf", "burst_out", 0, SIZE_IN_BYTES) \in accesses
    /\ Access("rx_buf", "r", SIZE_IN_BYTES - 1, 1) \in accesses
    /\ Access("tx_buf", "w", SIZE_IN_BYTES - 1, 1) \in accesses

Terminal == {AssertTrap, "idle"}
StaysTerminal ==
    (pc \in Terminal) => (pc' = pc /\ trace' = trace /\ console' = console)

\* C9: every execution eventually is at the halt trap or in the idle loop and
\* stays there; it is at the trap iff a checked call returned a failure, in
\* the idle loop only if none did; and once there it takes no further step
\* and prints nothing more.
C9_Terminates ==
    /\ <>[](pc \in Terminal)
    /\ [](pc = AssertTrap <=> failed # "none")
    /\ [](pc = "idle" => (failed = "none" /\ Done("completed")))
    /\ [][StaysTerminal]_vars

C9_Witness == pc = AssertTrap /\ failed = "memslot_init" /\ ~Done("read_before_write")

\* C10: when executed_api is called the merge timeout is cleared, the caches
\* are invalidated and disabled, and the mode was set to memory-mapped in the
\* step just before; afterwards the success line is printed iff the value
\* returned for LOOP_VALUE is LOOP_VALUE + 1; and executed_api(d) is d + 1
\* wrapped to 8 bits for every 8-bit d.
C10_ExecutedApi ==
    /\ pc = "executed_api" =>
          /\ ~mergeTimeout
          /\ ~cacheValid
          /\ ~cacheEnabled
          /\ mode = CY_SMIF_MEMORY
          /\ trace[Len(trace)] = "setmode_memory_2"
    /\ Done("xip_verdict") =>
          /\ Printed(XipOkLine) <=> loop_count = LOOP_VALUE + 1
          /\ Printed(XipFailLine) <=> loop_count # LOOP_VALUE + 1
    /\ \A d \in Byte : executed_api(d) = (IF d = UINT8_MAX THEN 0 ELSE d + 1)

C10_Witness ==
    /\ pc = "completed"
    /\ loop_count = LOOP_VALUE + 1
    /\ console[Len(console)] = XipOkLine

====
